---------------------------- MODULE Spec2Model ----------------------------
(***************************************************************************)
(* A model of rrsim (src/rrsim.go): the rolling-restart simulator.         *)
(*                                                                         *)
(* main() starts one batch of tasks and then, forever, sleeps runDuration  *)
(* and starts the next batch, one task per slot, restartDuration/num       *)
(* apart.  Every task is a goroutine (runTask) that registers a counter    *)
(* with the Prometheus default registry and then selects over three        *)
(* timers: the stop timer, the query timer and the one-second loss ticker. *)
(*                                                                         *)
(* Time is discrete; one unit is half a second (Second == 2).  Timers fire *)
(* at the instant they are set for: time advances (Tick) only when no      *)
(* timer is due and no goroutine is runnable.  What is due at the same     *)
(* instant fires in any order: Go's select picks among ready cases at      *)
(* random and the goroutines run in parallel.                              *)
(*                                                                         *)
(* The random draws of the program (rand.NormFloat64, rand.Float64) are    *)
(* nondeterministic choices from the small sets Norms, Unifs and Draws.    *)
(***************************************************************************)
EXTENDS Integers, FiniteSets, Sequences, TLC

VARIABLES
    num,              \* flag -n
    runDuration,      \* flag -run-duration, in time units
    restartDuration,  \* flag -restart-duration, in time units
    qps,              \* flag -qps
    jitter,           \* flag -jitter
    loss,             \* flag -loss, in percent
    now,              \* the clock
    mpc,              \* where main() is
    batch,            \* main's batch
    i,                \* main's loop variable
    wake,             \* when main's time.Sleep returns
    tasks,            \* the live runTask goroutines, by <<batch, id>>
    registry,         \* the identities registered with the default registry
    panicked,         \* MustRegister has panicked: the process is gone
    ended,            \* the goroutines that have returned, with the time they did
    unregFalse,       \* the identities for which Unregister returned false
    starts,           \* main's go statements in order: identity, lifetime, time
    waveAt,           \* when main began each restart batch
    regAt             \* when each task registered its counter

cfgVars  == <<num, runDuration, restartDuration, qps, jitter, loss>>
mainVars == <<mpc, batch, i, wake>>
histVars == <<starts, waveAt, regAt>>
vars == <<num, runDuration, restartDuration, qps, jitter, loss, now, mpc, batch,
          i, wake, tasks, registry, panicked, ended, unregFalse, starts, waveAt,
          regAt>>

-----------------------------------------------------------------------------
(* Bounds and units *)

\* time.Second, in time units
Second == 2

\* the clock stops here
MaxTime == 11

\* a counter that has reached this value is no longer incremented
MaxCnt == 2

\* the largest -n of Spec
MaxNum == 2

\* the clock of the end-to-end scenario stops here
ScenarioMaxTime == 18

\* the clock bound in force: the scenario is the configuration with three tasks
TimeBound == IF num = 3 /\ runDuration = 2 * Second /\ restartDuration = 3 * Second
             THEN ScenarioMaxTime ELSE MaxTime

\* rand.NormFloat64(): the draws the model takes
Norms == {-2, 0, 1}

\* rand.Float64() at line 75, in halves: 0 and 1/2
Unifs == {0, 1}

\* rand.Float64() at line 87, in percent
Draws == {0, 50, 99}

LossNone == 0
LossHalf == 50
LossAll  == 100

-----------------------------------------------------------------------------
(* Pure helpers *)

\* a quotient of floats converted to time.Duration: truncated toward zero
TruncDiv(a, b) ==
    IF b > 0 THEN (IF a >= 0 THEN a \div b ELSE -((-a) \div b))
    ELSE (IF a >= 0 THEN -(a \div (-b)) ELSE (-a) \div (-b))

\* a timer set d from now fires at ...; a non-positive d fires immediately
After(d) == now + (IF d > 0 THEN d ELSE 0)

\* a slip: "*" for "/"
waitDurationNsTimes(n) == Second * (n * jitter + 1) * qps

\* waitDurationNs(), for the normal draw n
waitDurationNs(n) == TruncDiv(Second * (n * jitter + 1), qps)

\* the first wait: waitDurationNs() * rand.Float64(), u in halves
firstWait(n, u) == TruncDiv(Second * (n * jitter + 1) * u, 2 * qps)

\* a slip: every task of the first batch gets the same lifetime
initialDurationNoStagger(k) == runDuration

\* a slip: the stagger alone, runDuration forgotten
initialDurationNoRun(k) == (restartDuration * k) \div num

\* a slip: the slots counted from 1
initialDurationOffByOne(k) == runDuration + (restartDuration * (k + 1)) \div num

\* the lifetime of slot k's task in the first batch
initialDuration(k) == runDuration + (restartDuration * k) \div num

\* a slip: the lifetime of a restart task without the restart wave
restartLifetimeNoRestart == runDuration

\* a slip: the lifetime of line 114 copied to line 122
restartLifetimeStaggered == runDuration + (restartDuration * i) \div num

\* the lifetime of a task of a restart batch
restartLifetime == runDuration + restartDuration

\* a slip: the whole restartDuration between two tasks
staggerSleepWhole == restartDuration

\* a slip: the operands of the division swapped
staggerSleepSwapped == num \div restartDuration

\* the sleep between two tasks of a restart batch
staggerSleep == restartDuration \div num

\* prometheus.MustRegister panics when the identity is registered already
registerPanics(reg, id) == id \in reg

\* a slip: nothing is registered
MustRegisterNoop(reg, id) == reg

MustRegister(reg, id) == reg \cup {id}

\* prometheus.Unregister returns false when the identity is not registered
unregisterOk(reg, id) == id \in reg

\* a slip: nothing is unregistered
UnregisterNoop(reg, id) == reg

Unregister(reg, id) == reg \ {id}

\* a slip: the counter counts only while it is registered
IncIfRegistered(t) == IF t.registered THEN [t EXCEPT !.cnt = @ + 1] ELSE t

\* cnt.Inc()
Inc(t) == [t EXCEPT !.cnt = @ + 1]

\* a slip: "else" for "else if !registered"
lossOutcomeElse(isRegistered, r) ==
    IF r < loss /\ isRegistered THEN "hide" ELSE "restore"

\* a slip: the draw decides first, also for a hidden counter
lossOutcomeDrawFirst(isRegistered, r) ==
    IF r < loss THEN (IF isRegistered THEN "hide" ELSE "keep")
    ELSE IF ~isRegistered THEN "restore"
    ELSE "keep"

\* a slip: ">" for "<"
lossOutcomeInverted(isRegistered, r) ==
    IF r > loss /\ isRegistered THEN "hide"
    ELSE IF ~isRegistered THEN "restore"
    ELSE "keep"

\* a slip: "<=" for "<"
lossOutcomeLe(isRegistered, r) ==
    IF r <= loss /\ isRegistered THEN "hide"
    ELSE IF ~isRegistered THEN "restore"
    ELSE "keep"

\* the decision of the loss tick, for the draw r
lossOutcome(isRegistered, r) ==
    IF r < loss /\ isRegistered THEN "hide"
    ELSE IF ~isRegistered THEN "restore"
    ELSE "keep"

\* a slip: the re-registered counter is a new one
reRegisterFresh(t) == [t EXCEPT !.registered = TRUE, !.cnt = 0]

\* lines 91-92: the same counter is registered again
reRegister(t) == [t EXCEPT !.registered = TRUE]

\* go runTask(id, batch, duration): a goroutine that has not run yet
newTask(d) ==
    [pc |-> "start", duration |-> d, registered |-> FALSE, cnt |-> 0,
     stopTimer |-> 0, queryTimer |-> 0, lossTicker |-> 0,
     ticks |-> 0, hidVal |-> 0, hidInc |-> 0, lastTick |-> "none"]

\* a slip: the new task replaces the task of its slot in the batch before
spawnPreempting(ts, id, d) ==
    [x \in (DOMAIN ts \cup {id}) \ {<<id[1] - 1, id[2]>>} |->
        IF x = id THEN newTask(d) ELSE ts[x]]

spawn(ts, id, d) ==
    [x \in DOMAIN ts \cup {id} |-> IF x = id THEN newTask(d) ELSE ts[x]]

\* what main's go statement starts, and when
started(id, d) == [id |-> id, duration |-> d, at |-> now]

\* a slip: "break" for "return" leaves the select, not the loop
retireBreak(ts, id) == ts

\* the goroutine of id returns
retire(ts, id) == [x \in DOMAIN ts \ {id} |-> ts[x]]

-----------------------------------------------------------------------------
(* The configurations *)

\* One task per batch is explored with every draw; with more tasks the query
\* generator is periodic, and with more than two the loss is 0 or 1.  restartDuration is num or
\* num + 1 units: a multiple of num and not, the slots one unit apart; with
\* two tasks and no loss it is also 1 unit: restartDuration/num is 0 and main starts the
\* slots of a batch at the same instant.
Configs ==
    { c \in [num : 1..MaxNum, run : {Second, Second + 1},
             restart : 1..(MaxNum + 2), qps : {1, 2}, jitter : {0, 1},
             loss : {LossNone, LossHalf, LossAll}] :
        /\ \/ c.restart \in {c.num, c.num + 1}
           \/ (c.num = 2 /\ c.restart = 1 /\ c.loss = LossNone)
        /\ c.num > 1 => (c.jitter = 0 /\ c.qps = 1)
        /\ c.num > 2 => c.loss # LossHalf }

\* the end-to-end scenario: N=3, runInterval=2s, restartInterval=3s, loss=0
ScenarioConfigs ==
    { [num |-> 3, run |-> 2 * Second, restart |-> 3 * Second, qps |-> 1,
       jitter |-> 0, loss |-> LossNone] }

\* configurations with an invalid flag: a task count of 0 or below, a negative
\* qps, a negative loss
InvalidConfigs ==
    { [num |-> n, run |-> Second, restart |-> Second, qps |-> 1, jitter |-> 0,
       loss |-> LossNone] : n \in {-1, 0} }
    \cup { [num |-> 1, run |-> Second, restart |-> Second, qps |-> -1,
            jitter |-> 0, loss |-> LossNone],
           [num |-> 1, run |-> Second, restart |-> Second, qps |-> 1,
            jitter |-> 0, loss |-> -LossHalf] }

InitWith(cs) ==
    /\ \E c \in cs :
        /\ num = c.num
        /\ runDuration = c.run
        /\ restartDuration = c.restart
        /\ qps = c.qps
        /\ jitter = c.jitter
        /\ loss = c.loss
    /\ now = 0
    /\ mpc = "initial"
    /\ batch = 0
    /\ i = 0
    /\ wake = 0
    /\ tasks = << >>
    /\ registry = {}
    /\ panicked = FALSE
    /\ ended = << >>
    /\ unregFalse = {}
    /\ starts = << >>
    /\ waveAt = << >>
    /\ regAt = << >>

Init == InitWith(Configs)

InvalidInit == InitWith(InvalidConfigs)

ScenarioInit == InitWith(ScenarioConfigs)

\* the configurations of Configs with one task per batch
FairInit == InitWith({ c \in Configs : c.num = 1 })

-----------------------------------------------------------------------------
(* main() *)

\* lines 113-115: one iteration of the first loop
MainStartInitial ==
    /\ ~panicked
    /\ mpc = "initial"
    /\ i < num
    /\ tasks' = spawn(tasks, <<batch, i>>, initialDuration(i))
    /\ starts' = Append(starts, started(<<batch, i>>, initialDuration(i)))
    /\ i' = i + 1
    /\ UNCHANGED <<cfgVars, now, mpc, batch, wake, registry, panicked, ended,
                   unregFalse, waveAt, regAt>>

\* line 118: a loop over the slots is over; main sleeps runDuration
MainSleepRun ==
    /\ ~panicked
    /\ mpc \in {"initial", "restart"}
    /\ i >= num
    /\ mpc' = "sleepRun"
    /\ wake' = After(runDuration)
    /\ UNCHANGED <<cfgVars, now, batch, i, tasks, registry, panicked, ended,
                   unregFalse, histVars>>

\* lines 119-121: the sleep is over; the next batch begins
MainBeginBatch ==
    /\ ~panicked
    /\ mpc = "sleepRun"
    /\ wake <= now
    /\ batch' = batch + 1
    /\ i' = 0
    /\ mpc' = "restart"
    /\ waveAt' = [b \in DOMAIN waveAt \cup {batch + 1} |->
                    IF b = batch + 1 THEN now ELSE waveAt[b]]
    /\ UNCHANGED <<cfgVars, now, wake, tasks, registry, panicked, ended,
                   unregFalse, starts, regAt>>

\* lines 122-123: start the task of slot i, then sleep restartDuration/num
MainRestartTask ==
    /\ ~panicked
    /\ mpc = "restart"
    /\ i < num
    /\ tasks' = spawn(tasks, <<batch, i>>, restartLifetime)
    /\ mpc' = "sleepStagger"
    /\ wake' = After(staggerSleep)
    /\ starts' = Append(starts, started(<<batch, i>>, restartLifetime))
    /\ UNCHANGED <<cfgVars, now, batch, i, registry, panicked, ended,
                   unregFalse, waveAt, regAt>>

\* line 121: the sleep is over; the next slot
MainNextSlot ==
    /\ ~panicked
    /\ mpc = "sleepStagger"
    /\ wake <= now
    /\ i' = i + 1
    /\ mpc' = "restart"
    /\ UNCHANGED <<cfgVars, now, batch, wake, tasks, registry, panicked, ended,
                   unregFalse, histVars>>

-----------------------------------------------------------------------------
(* runTask() *)

\* lines 59-77: register the counter, set the three timers
TaskStart(id) ==
    /\ ~panicked
    /\ id \in DOMAIN tasks
    /\ tasks[id].pc = "start"
    /\ IF registerPanics(registry, id)
       THEN /\ panicked' = TRUE
            /\ UNCHANGED <<tasks, registry, regAt>>
       ELSE /\ registry' = MustRegister(registry, id)
            /\ regAt' = [x \in DOMAIN regAt \cup {id} |->
                           IF x = id THEN now ELSE regAt[x]]
            /\ \E n \in Norms, u \in Unifs :
                 tasks' = [tasks EXCEPT ![id] =
                             [@ EXCEPT !.pc = "loop",
                                       !.registered = TRUE,
                                       !.stopTimer = After(tasks[id].duration),
                                       !.queryTimer = After(firstWait(n, u)),
                                       !.lossTicker = now + Second]]
            /\ UNCHANGED panicked
    /\ UNCHANGED <<cfgVars, now, mainVars, ended, unregFalse, starts, waveAt>>

\* lines 81-82, and the deferred calls of lines 71 and 77
TaskStop(id) ==
    /\ ~panicked
    /\ id \in DOMAIN tasks
    /\ tasks[id].pc = "loop"
    /\ tasks[id].stopTimer <= now
    /\ registry' = Unregister(registry, id)
    /\ unregFalse' = IF unregisterOk(registry, id) THEN unregFalse
                     ELSE unregFalse \cup {id}
    /\ tasks' = retire(tasks, id)
    /\ ended' = [x \in DOMAIN ended \cup {id} |-> IF x = id THEN now ELSE ended[x]]
    /\ UNCHANGED <<cfgVars, now, mainVars, panicked, histVars>>

\* lines 83-85
TaskQuery(id) ==
    /\ ~panicked
    /\ id \in DOMAIN tasks
    /\ tasks[id].pc = "loop"
    /\ tasks[id].queryTimer <= now
    /\ tasks[id].cnt < MaxCnt
    /\ \E n \in Norms :
         tasks' = [tasks EXCEPT ![id] =
                     [Inc(@) EXCEPT !.queryTimer = After(waitDurationNs(n)),
                                    !.hidInc = IF tasks[id].registered THEN @ ELSE @ + 1]]
    /\ UNCHANGED <<cfgVars, now, mainVars, registry, panicked, ended, unregFalse,
                   histVars>>

\* lines 86-93
TaskLoss(id) ==
    /\ ~panicked
    /\ id \in DOMAIN tasks
    /\ tasks[id].pc = "loop"
    /\ tasks[id].lossTicker <= now
    /\ \E r \in Draws :
         LET t   == tasks[id]
             out == lossOutcome(t.registered, r)
             t1  == [t EXCEPT !.lossTicker = @ + Second,
                              !.ticks = @ + 1,
                              !.lastTick = out]
         IN CASE out = "hide" ->
                   /\ registry' = Unregister(registry, id)
                   /\ unregFalse' = IF unregisterOk(registry, id) THEN unregFalse
                                    ELSE unregFalse \cup {id}
                   /\ tasks' = [tasks EXCEPT ![id] =
                                  [t1 EXCEPT !.registered = FALSE,
                                             !.hidVal = t.cnt,
                                             !.hidInc = 0]]
                   /\ UNCHANGED panicked
              [] out = "restore" ->
                   IF registerPanics(registry, id)
                   THEN /\ panicked' = TRUE
                        /\ UNCHANGED <<tasks, registry, unregFalse>>
                   ELSE /\ registry' = MustRegister(registry, id)
                        /\ tasks' = [tasks EXCEPT ![id] = reRegister(t1)]
                        /\ UNCHANGED <<panicked, unregFalse>>
              [] OTHER ->
                   /\ tasks' = [tasks EXCEPT ![id] = t1]
                   /\ UNCHANGED <<registry, panicked, unregFalse>>
    /\ UNCHANGED <<cfgVars, now, mainVars, ended, histVars>>

-----------------------------------------------------------------------------
(* Time *)

\* nothing is due now: main sleeps and every task waits in its select
Quiet ==
    /\ mpc \in {"sleepRun", "sleepStagger"}
    /\ wake > now
    /\ \A id \in DOMAIN tasks :
         /\ tasks[id].pc = "loop"
         /\ tasks[id].stopTimer > now
         /\ tasks[id].lossTicker > now
         /\ (tasks[id].queryTimer > now \/ tasks[id].cnt >= MaxCnt)

Tick ==
    /\ ~panicked
    /\ now < TimeBound
    /\ Quiet
    /\ now' = now + 1
    /\ UNCHANGED <<cfgVars, mainVars, tasks, registry, panicked, ended, unregFalse,
                   histVars>>

Next ==
    \/ MainStartInitial
    \/ MainSleepRun
    \/ MainBeginBatch
    \/ MainRestartTask
    \/ MainNextSlot
    \/ \E id \in DOMAIN tasks : TaskStart(id)
    \/ \E id \in DOMAIN tasks : TaskStop(id)
    \/ \E id \in DOMAIN tasks : TaskQuery(id)
    \/ \E id \in DOMAIN tasks : TaskLoss(id)
    \/ Tick

Spec == Init /\ [][Next]_vars

InvalidSpec == InvalidInit /\ [][Next]_vars

ScenarioSpec == ScenarioInit /\ [][Next]_vars

\* with a restartDuration below num the sleep of line 123 is 0, and a whole wave
\* starts at one instant; with a runDuration no longer than that as well, waves
\* follow each other faster than their tasks end
DenseConfigs ==
    { [num |-> 2, run |-> 1, restart |-> 1, qps |-> 1, jitter |-> 0,
       loss |-> LossNone] }

\* the dense configuration, with the configurations of Configs that have two
\* tasks per batch and no loss
DenseInit ==
    InitWith(DenseConfigs \cup { c \in Configs : c.num = 2 /\ c.loss = LossNone })

DenseSpec == DenseInit /\ [][Next]_vars

\* every task that FairSpec can start
FairIds == (0 .. (MaxTime \div Second)) \X {0}

\* The runtime runs a goroutine that can run, a sleep or a timer that is due
\* ends or fires, and a select whose case stays ready takes it in the end (the
\* choice among ready cases is uniformly random): weak fairness of every step.
Fairness ==
    /\ WF_vars(MainStartInitial)
    /\ WF_vars(MainSleepRun)
    /\ WF_vars(MainBeginBatch)
    /\ WF_vars(MainRestartTask)
    /\ WF_vars(MainNextSlot)
    /\ WF_vars(Tick)
    /\ \A id \in FairIds :
         /\ WF_vars(TaskStart(id))
         /\ WF_vars(TaskStop(id))
         /\ WF_vars(TaskQuery(id))
         /\ WF_vars(TaskLoss(id))

FairSpec == FairInit /\ [][Next]_vars /\ Fairness

-----------------------------------------------------------------------------
(* Shared by the claims *)

\* the tasks that have registered and not yet returned
Running == { id \in DOMAIN tasks : tasks[id].pc = "loop" }

\* every task of the first batch has registered (it may have returned since)
InitialWaveDone ==
    \A k \in 0..(num - 1) : <<0, k>> \in Running \cup DOMAIN ended

\* the predecessor of a task: the same slot in the batch before
Pred(id) == <<id[1] - 1, id[2]>>

-----------------------------------------------------------------------------
(* C1 *)

\* C1 as stated: in the scenario N=3, runInterval=2s, restartInterval=3s,
\* loss=0, once the three tasks of batch 0 have registered the registry holds
\* 2 or 3 identities.
C1_TwoOrThree ==
    InitialWaveDone => Cardinality(registry) \in {2, 3}

\* C1, amended: in the scenario, once the three tasks of batch 0 have
\* registered, the registry holds 2, 3 or 4 identities: never fewer than 2
\* and never 5 or more.  It holds 4 when a task of batch b+1 registers before
\* the task of its slot in batch b, whose stop timer is due at the same
\* instant, has returned.
C1_TwoToFour ==
    InitialWaveDone => Cardinality(registry) \in {2, 3, 4}

\* a new task has registered at the instant its predecessor's stop timer is
\* due, before the predecessor returned: four identities
C1_Witness ==
    /\ InitialWaveDone
    /\ Cardinality(registry) = 4
    /\ \E id \in Running :
         /\ id[1] >= 1
         /\ Pred(id) \in Running
         /\ tasks[Pred(id)].stopTimer = now

-----------------------------------------------------------------------------
(* C2 *)

\* C2: Unregister is invoked on an identity only while it is present in the
\* registry: no call of Unregister, at a loss tick or at lifetime expiry,
\* finds its counter absent.
C2_UnregisterOnlyPresent == unregFalse = {}

-----------------------------------------------------------------------------
(* C3 *)

\* C3: Register is never invoked for an identity that is present in the
\* registry, neither at task start nor at the re-registration after a loss
\* tick: MustRegister never panics, and no identity is started again once its
\* task has returned.
C3_NoDoubleRegistration ==
    /\ ~panicked
    /\ DOMAIN tasks \cap DOMAIN ended = {}
    /\ registry \subseteq Running

\* a task of a restart batch has re-registered its counter after a loss
C3_Witness ==
    \E id \in Running :
        /\ id[1] >= 1
        /\ tasks[id].lastTick = "restore"
        /\ id \in registry
        /\ ~panicked

-----------------------------------------------------------------------------
(* C4 *)

\* the loss tick of id fires in this step
LossTickOf(id) ==
    /\ id \in Running
    /\ id \in DOMAIN tasks'
    /\ tasks'[id].ticks = tasks[id].ticks + 1

\* C4: a loss lasts one tick period: a loss tick that finds the counter of a
\* live task absent re-registers it, whatever the draw and the loss
\* probability.
C4_LossLastsOneTick ==
    [][\A id \in DOMAIN tasks :
         (LossTickOf(id) /\ id \notin registry)
            => (id \in registry' /\ tasks'[id].registered)]_vars

\* with loss = 0.5, a counter hidden by one tick has been restored by the next
C4_Witness ==
    \E id \in Running :
        /\ loss = LossHalf
        /\ tasks[id].lastTick = "restore"
        /\ tasks[id].ticks >= 2
        /\ id \in registry

-----------------------------------------------------------------------------
(* C5 *)

\* C5: with loss = 1 the visibility alternates at successive loss ticks: the
\* counter is absent after the ticks 1, 3, 5, ... and present after the ticks
\* 2, 4, 6, ...
C5_Alternates ==
    loss = LossAll =>
        \A id \in Running :
            /\ tasks[id].registered = (tasks[id].ticks % 2 = 0)
            /\ (id \in registry) = (tasks[id].ticks % 2 = 0)

\* with loss = 1, the third tick has hidden the counter again
C5_Witness ==
    \E id \in Running :
        /\ loss = LossAll
        /\ tasks[id].ticks = 3
        /\ id \notin registry

-----------------------------------------------------------------------------
(* C6 *)

\* C6: with loss = 0 the counter of a task is in the registry in every state
\* from its registration to its lifetime expiry.
C6_AlwaysVisible ==
    loss = LossNone =>
        \A id \in Running : id \in registry /\ tasks[id].registered

\* with loss = 0, a counter is present after two loss ticks
C6_Witness ==
    \E id \in Running :
        /\ loss = LossNone
        /\ tasks[id].ticks >= 2
        /\ id \in registry

-----------------------------------------------------------------------------
(* C7 *)

\* C7: a loss never loses counter value: a query firing while the counter is
\* absent increments it, and when the counter is re-registered its value is
\* its value when it was hidden plus the number of query firings since.
C7_ValuePreserved ==
    [][\A id \in Running \cap DOMAIN tasks' :
         /\ (~tasks[id].registered /\ tasks'[id].queryTimer # tasks[id].queryTimer)
               => tasks'[id].cnt = tasks[id].cnt + 1
         /\ tasks'[id].hidInc = tasks[id].hidInc + 1
               => tasks'[id].cnt = tasks[id].cnt + 1
         /\ (~tasks[id].registered /\ tasks'[id].registered)
               => /\ id \in registry'
                  /\ tasks'[id].cnt = tasks[id].hidVal + tasks[id].hidInc]_vars

\* a counter hidden at a positive value, incremented while hidden, is back
C7_Witness ==
    \E id \in Running :
        /\ tasks[id].lastTick = "restore"
        /\ tasks[id].hidVal >= 1
        /\ tasks[id].hidInc >= 1
        /\ tasks[id].cnt = tasks[id].hidVal + tasks[id].hidInc
        /\ id \in registry

-----------------------------------------------------------------------------
(* C8 *)

\* C8: for every N > 0, with loss = 0, after the N tasks of batch 0 have
\* registered and before runDuration has elapsed, the registry holds exactly
\* the N identities <<0, 0>> .. <<0, N-1>>.
C8_InitialWave ==
    (loss = LossNone /\ InitialWaveDone /\ now < runDuration)
        => registry = { <<0, k>> : k \in 0..(num - 1) }

\* two or more tasks of batch 0 are registered, time has passed, and
\* runDuration has not elapsed
C8_Witness ==
    /\ loss = LossNone
    /\ num >= 2
    /\ InitialWaveDone
    /\ now >= 1
    /\ now < runDuration
    /\ Cardinality(registry) = num

-----------------------------------------------------------------------------
(* C9 *)

\* the task id registers in this step
RegistersNow(id) ==
    /\ id \in DOMAIN tasks
    /\ tasks[id].pc = "start"
    /\ id \in DOMAIN tasks'
    /\ tasks'[id].pc = "loop"

\* C9 as stated: when the task of slot i in batch b+1 registers, the task of
\* slot i in batch b is still running.
C9_AlwaysOverlap ==
    [][\A id \in DOMAIN tasks :
         (RegistersNow(id) /\ id[1] >= 1) => Pred(id) \in Running]_vars

\* C9, amended: when the task of slot i in batch b+1 registers, the task of
\* slot i in batch b is still running or has returned at this very instant:
\* its lifetime never expires before the instant its successor is started at.
\* When restartDuration is a multiple of num, the two instants coincide and
\* either may come first.
C9_OverlapOrSameInstant ==
    [][\A id \in DOMAIN tasks :
         (RegistersNow(id) /\ id[1] >= 1)
            => \/ Pred(id) \in Running
               \/ (Pred(id) \in DOMAIN ended /\ ended[Pred(id)] = now)]_vars

\* a task has registered at the instant its predecessor returned
C9_Witness ==
    \E id \in Running :
        /\ id[1] >= 1
        /\ tasks[id].stopTimer = now + tasks[id].duration
        /\ Pred(id) \in DOMAIN ended
        /\ ended[Pred(id)] = now

-----------------------------------------------------------------------------
(* C10 *)

\* the task id is started in this step: by main (go runTask) or by its own
\* first lines
StartsNow(id) ==
    \/ (id \notin DOMAIN tasks /\ id \in DOMAIN tasks')
    \/ RegistersNow(id)

\* C10: the start of a task leaves every other task as it is (its counter,
\* its registered flag, its timers, its presence in the registry), and a task
\* returns only when its own stop timer is due.
C10_NoPreemption ==
    [][/\ \A id \in DOMAIN tasks :
            id \notin DOMAIN tasks'
               => (tasks[id].pc = "loop" /\ tasks[id].stopTimer <= now)
       /\ \A new \in DOMAIN tasks' :
            StartsNow(new)
               => \A id \in DOMAIN tasks \ {new} :
                     /\ id \in DOMAIN tasks'
                     /\ tasks'[id] = tasks[id]
                     /\ (id \in registry') = (id \in registry)]_vars

\* a task has just registered while its predecessor, with a counter above 0,
\* is running
C10_Witness ==
    \E id \in Running :
        /\ id[1] >= 1
        /\ tasks[id].stopTimer = now + tasks[id].duration
        /\ Pred(id) \in Running
        /\ tasks[Pred(id)].cnt >= 1
        /\ tasks[Pred(id)].stopTimer > now

-----------------------------------------------------------------------------
(* C11 *)

\* C11: once the stop timer of a task has fired, its identity is absent from
\* the registry and its goroutine is gone, in every later state, whether the
\* counter was registered or hidden when the timer fired: nothing increments or
\* toggles the counter any more.
C11_RetiredForGood ==
    \A id \in DOMAIN ended : id \notin registry /\ id \notin DOMAIN tasks

\* a task whose counter was hidden when its stop timer fired, and one whose
\* counter was registered, have returned, and time has passed since
C11_Witness ==
    /\ \E id \in DOMAIN ended :
         id \in unregFalse /\ ended[id] < now /\ id \notin registry
    /\ \E id \in DOMAIN ended :
         id \notin unregFalse /\ ended[id] < now /\ id \notin registry

-----------------------------------------------------------------------------
(* C12 *)

\* the last slot's tasks of the restart batches that have registered
LastSlotRegistered ==
    { id \in DOMAIN regAt : id[1] >= 1 /\ id[2] = num - 1 }

\* C12 as stated: in every restart wave, the time from the start of the wave
\* to the registration of the last slot's task is restartDuration.
C12_WaveTakesRestartDuration ==
    \A id \in LastSlotRegistered :
        regAt[id] - waveAt[id[1]] = restartDuration

\* C12, amended: in every restart wave, the time from the start of the wave
\* to the registration of the last slot's task is the sum of the num - 1
\* sleeps before it, (num - 1) * (restartDuration / num) in integer division.
\* The sleep after the last slot's start comes after its registration.
C12_WaveTakesAllButOneSleep ==
    \A id \in LastSlotRegistered :
        regAt[id] - waveAt[id[1]] = (num - 1) * (restartDuration \div num)

\* the last of two or more slots has registered, after a positive time
C12_Witness ==
    \E id \in LastSlotRegistered :
        /\ num >= 2
        /\ regAt[id] - waveAt[id[1]] >= 1
        /\ regAt[id] - waveAt[id[1]] < restartDuration

-----------------------------------------------------------------------------
(* C13 *)

\* C13: main starts the tasks in the order (0,0) .. (0,N-1), (1,0) .. (1,N-1),
\* ...: one task per slot and batch, the slots in increasing order, a batch
\* after the batch before, no identity twice; a task of a restart batch has
\* the lifetime runDuration + restartDuration; and slot 0 of batch b+1 starts
\* runDuration after the sleep that follows the last slot of batch b.
C13_SteadyState ==
    \A k \in 1..Len(starts) :
        LET e == starts[k]
        IN /\ e.id = <<(k - 1) \div num, (k - 1) % num>>
           /\ e.id[1] >= 1 => e.duration = runDuration + restartDuration
           /\ e.id[1] = 0 => e.at = 0
           /\ e.id = <<1, 0>> => e.at = runDuration
           /\ (e.id[1] >= 2 /\ e.id[2] = 0)
                 => e.at = starts[k - 1].at + restartDuration \div num + runDuration
           /\ (e.id[1] >= 1 /\ e.id[2] >= 1)
                 => e.at = starts[k - 1].at + restartDuration \div num

\* with two or more slots, the third batch has begun
C13_Witness ==
    /\ num >= 2
    /\ Len(starts) >= 2 * num + 1
    /\ starts[Len(starts)].id[1] >= 2

-----------------------------------------------------------------------------
(* C14 *)

\* C14: the stagger offset of slot k in the first batch, its lifetime beyond
\* runDuration, is the integer quotient of restartDuration * k by num: it is 0
\* for slot 0, lies in [0, restartDuration) and does not decrease with k.
C14_StaggerOffsets ==
    \A k \in 1..Len(starts) :
        LET e   == starts[k]
            off == e.duration - runDuration
        IN e.id[1] = 0 =>
              /\ off * num <= restartDuration * e.id[2]
              /\ restartDuration * e.id[2] < (off + 1) * num
              /\ 0 <= off /\ off < restartDuration
              /\ e.id[2] = 0 => off = 0
              /\ e.id[2] >= 1 => off >= starts[k - 1].duration - runDuration

\* every task of a first batch of two or more has been started, num does not
\* divide restartDuration, and the last offset is positive
C14_Witness ==
    /\ num >= 2
    /\ restartDuration % num # 0
    /\ Len(starts) >= num
    /\ starts[num].duration > runDuration

-----------------------------------------------------------------------------
(* C15 *)

\* a flag has an invalid value
InvalidConfig == num <= 0 \/ qps <= 0 \/ loss < 0

\* C15: with an invalid configuration (a task count of 0 or below, a
\* non-positive qps, a negative loss) the program ends in a fatal error and
\* does not go on to run the scheduler loop: it never begins a restart batch.
C15_InvalidIsFatal ==
    InvalidConfig => (panicked \/ batch = 0)

-----------------------------------------------------------------------------
(* C16 *)

\* the query timer of id fires in this step
QueryFires(id) ==
    /\ id \in Running
    /\ id \in DOMAIN tasks'
    /\ \/ tasks'[id].cnt # tasks[id].cnt
       \/ tasks'[id].queryTimer # tasks[id].queryTimer

\* the goroutine of id returns in this step
Returns(id) == id \in Running /\ id \notin DOMAIN tasks'

\* C16: with jitter = 0 a query firing increments the counter by exactly 1;
\* the first firing comes less than 1/qps after the task's start and every
\* later one exactly 1/qps after the one before; so the counter of a task
\* whose lifetime D expires differs from D * qps by at most 1.  (A counter
\* that has reached MaxCnt is no longer followed: of it, only that MaxCnt is
\* not above D * qps + 1.)
C16_PeriodicQueries ==
    [][jitter = 0 =>
        \A id \in DOMAIN tasks :
            /\ RegistersNow(id)
                  => /\ tasks'[id].queryTimer >= now
                     /\ (tasks'[id].queryTimer - now) * qps < Second
            /\ QueryFires(id)
                  => /\ tasks'[id].cnt = tasks[id].cnt + 1
                     /\ tasks[id].queryTimer = now
                     /\ (tasks'[id].queryTimer - now) * qps = Second
            /\ Returns(id)
                  => LET c == tasks[id].cnt
                         d == tasks[id].duration
                     IN /\ c * Second <= d * qps + Second
                        /\ c < MaxCnt => c * Second >= d * qps - Second]_vars

\* with jitter = 0, the stop timer of a task that lived a second and a half
\* or longer is due, and its counter, below MaxCnt, has counted
C16_Witness ==
    \E id \in Running :
        /\ jitter = 0
        /\ tasks[id].stopTimer <= now
        /\ tasks[id].duration > Second
        /\ tasks[id].cnt >= 1
        /\ tasks[id].cnt < MaxCnt

-----------------------------------------------------------------------------
(* C17 *)

\* what the /metrics handler gathers: the value of every registered counter
Snapshot == [id \in registry \cap DOMAIN tasks |-> tasks[id].cnt]

\* C17: a snapshot holds one entry per registered identity, each the counter
\* of one live task, with a value that is not negative; and the value of a
\* counter never decreases from one state to the next, whether it is
\* registered or hidden, so it does not decrease from one snapshot to a later
\* one, also across a window in which it was hidden.
C17_SnapshotMonotone ==
    [][/\ DOMAIN Snapshot = registry
       /\ \A id \in DOMAIN Snapshot : Snapshot[id] >= 0
       /\ \A id \in DOMAIN tasks \cap DOMAIN tasks' :
             tasks'[id].cnt >= tasks[id].cnt]_vars

\* a counter above 0 that was hidden and counted while hidden is in the
\* snapshot again
C17_Witness ==
    \E id \in DOMAIN Snapshot :
        /\ tasks[id].lastTick = "restore"
        /\ tasks[id].hidVal >= 1
        /\ tasks[id].hidInc >= 1
        /\ Snapshot[id] >= 2

-----------------------------------------------------------------------------
(* C18 *)

\* the stop timer of id fires before the clock of the model stops
WillExpire(id) ==
    /\ id \in DOMAIN tasks
    /\ IF tasks[id].pc = "start"
       THEN now + tasks[id].duration <= TimeBound
       ELSE tasks[id].stopTimer <= TimeBound

\* id has returned, with its counter out of the registry
Ended(id) ==
    /\ id \notin DOMAIN tasks
    /\ id \in DOMAIN ended
    /\ id \notin registry

\* C18: under weak fairness every started task ends (if its lifetime expires
\* before the clock of the model stops): the expiry branch is taken, once and
\* not again, and the counter is unregistered, also when the query timer is
\* ready all the time and when the expiry coincides with a loss tick; and the
\* select loop does not deadlock: the expiry branch of a running task can be
\* taken whenever its stop timer, set once to the task's lifetime, is due.
C18_EventuallyEnds ==
    /\ \A id \in FairIds : WillExpire(id) ~> Ended(id)
    /\ [][\A id \in DOMAIN tasks :
            /\ Returns(id) => (id \notin DOMAIN ended /\ id \in DOMAIN ended')
            /\ id \in DOMAIN ended => id \notin DOMAIN tasks']_vars
    /\ [](~panicked =>
            \A id \in Running :
                /\ tasks[id].stopTimer = regAt[id] + tasks[id].duration
                /\ tasks[id].stopTimer <= now => ENABLED TaskStop(id))

\* a task has ended whose expiry coincided with a loss tick while non-positive
\* waits were drawn; the task after it, its query timer having fired, has its
\* stop timer, its query timer and its loss ticker all due at once
C18_Witness ==
    /\ jitter = 1
    /\ loss > 0
    /\ \E id \in DOMAIN ended :
         /\ Ended(id)
         /\ (ended[id] - regAt[id]) % Second = 0
    /\ \E id \in Running :
         /\ tasks[id].stopTimer <= now
         /\ tasks[id].queryTimer <= now
         /\ tasks[id].lossTicker <= now
         /\ tasks[id].cnt >= 1
         /\ tasks[id].cnt < MaxCnt

-----------------------------------------------------------------------------
(* C19 *)

\* C19: between two iterations of the select loop of a running task, its
\* registered flag is true if and only if its identity is in the registry.
C19_FlagIsPresence ==
    \A id \in Running : tasks[id].registered = (id \in registry)

\* a running task with its flag false and its counter out of the registry
C19_Witness ==
    \E id \in Running :
        /\ ~tasks[id].registered
        /\ id \notin registry
        /\ tasks[id].ticks >= 1

-----------------------------------------------------------------------------
(* C20 *)

\* the running tasks of slot k
SlotTasks(k) == { id \in Running : id[2] = k }

\* at most two running tasks per slot, of consecutive batches; at most 2N
\* running tasks; no task is started while the task two batches before it, of
\* the same slot, has not ended
TwoPerSlot ==
    /\ \A k \in 0 .. (num - 1) :
         /\ Cardinality(SlotTasks(k)) <= 2
         /\ \A a, b \in SlotTasks(k) : a[1] - b[1] \in {-1, 0, 1}
    /\ Cardinality(Running) <= 2 * num
    /\ \A id \in DOMAIN tasks : <<id[1] - 2, id[2]>> \notin DOMAIN tasks

\* C20 as stated: in every reachable state each slot has at most two running
\* tasks, of consecutive batches b and b+1; at most 2N tasks run at once; a
\* task of batch b has ended before the task of batch b+2 of its slot starts.
C20_TwoPerSlot == TwoPerSlot

\* C20 amended: the same, for a configuration whose restartDuration is not
\* below N (so that the sleep between two tasks of a wave, restartDuration / N,
\* is not 0) or whose runDuration is longer than its restartDuration.
C20_TwoPerSlotWhenStaggered ==
    (restartDuration >= num \/ runDuration > restartDuration) => TwoPerSlot

\* such a configuration, with two running tasks in every slot
C20_Witness ==
    /\ restartDuration >= num \/ runDuration > restartDuration
    /\ batch >= 2
    /\ \A k \in 0 .. (num - 1) : Cardinality(SlotTasks(k)) = 2
    /\ Cardinality(Running) = 2 * num

=============================================================================
